---------------------------- MODULE Spec2Model ----------------------------
(***************************************************************************)
(* Overlay visibility and window-lifecycle controller of the apx desktop   *)
(* command overlay (Electron main process).                                *)
(*                                                                         *)
(* The repository holds two copies of the controller: src/src/main.js and  *)
(* src/unnamed/part_002 (the copy with the hide/minimize/close restore     *)
(* handlers and the allowOverlayHide flag).  The variable `variant` fixes  *)
(* which copy runs; it never changes after Init.                           *)
(*                                                                         *)
(* The main process is single threaded: every handler below is one atomic  *)
(* action.  Events of the window system ('hide', 'minimize'), timers and   *)
(* backend answers are delivered by later turns of the event loop, in any  *)
(* order relative to each other, so each is an action of its own.          *)
(***************************************************************************)
EXTENDS Naturals, Integers, Sequences, FiniteSets

\* ------------------------------------------------------------------ bounds
MaxGen == 3            \* overlay windows created in one run (generation ids)
MaxHidePending == 1    \* 'hide' events queued for one window and not yet delivered
MaxResetTimers == 2    \* 1500 ms safety-reset timers pending at once
MaxToggleRun == 4      \* length of the toggle-only prefix that is counted

Variants == {"main", "part_002"}
Gens == 1..MaxGen

VARIABLES
  variant,          \* which copy of the controller runs
  ov,               \* the overlay BrowserWindow objects, by generation id
  overlayWindow,    \* the global `overlayWindow`: a generation id, 0 for null
  mainWindow,       \* the global `mainWindow`: TRUE = a live window, FALSE = null
  allowOverlayHide, \* part_002: "allow manual hide when toggling via shortcut"
  resetTimers,      \* part_002: pending setTimeout(allowOverlayHide = false, 1500),
                    \* oldest first; each entry counts the 'hide' events that were
                    \* queued before it was armed and are not yet delivered
  recreateTimers,   \* pending crash timers (1000 ms, fire in FIFO order)
  last,             \* the handler that ran last and how it ended
  toggleRun,        \* toggles so far while nothing but toggles (and the events
                    \* they trigger) has happened; -1 once anything else happened
  expectVisible,    \* the overlay was shown and not dismissed by the hotkey since
  recreations,      \* overlay windows created by the crash timer so far
  ui,               \* the overlay page's visibility state machine and auto-hide
                    \* timers (changes only in SpecUi)
  reply,            \* what the command bridge handler returned last (changes only
                    \* in SpecBridge and SpecFlight)
  app               \* the application around the overlay: its run phase, the
                    \* registered shortcut, the main window's generation and the
                    \* backend process (changes only in SpecApp)

vars == <<variant, ov, overlayWindow, mainWindow, allowOverlayHide, resetTimers,
          recreateTimers, last, toggleRun, expectVisible, recreations, ui, reply,
          app>>

\* ------------------------------------------------------- BrowserWindow model
\* A window that was never created, and (canonically) one that was destroyed.
NoWindow(s) ==
  [st |-> s, visible |-> FALSE, minimized |-> FALSE, onTop |-> FALSE,
   allWS |-> FALSE, ignoreMouse |-> FALSE, crashed |-> FALSE,
   hidePending |-> 0, minPending |-> FALSE]

\* new BrowserWindow({... alwaysOnTop: true, show: false ...}) followed by
\* setIgnoreMouseEvents(true, {forward: true}); part_002 also calls
\* setVisibleOnAllWorkspaces(true) right after construction.
NewOverlay(v) ==
  [st |-> "live", visible |-> FALSE, minimized |-> FALSE, onTop |-> TRUE,
   allWS |-> (v = "part_002"), ignoreMouse |-> TRUE,
   crashed |-> FALSE, hidePending |-> 0, minPending |-> FALSE]

\* part_002 registers 'hide' and 'minimize' listeners; main.js has none, so the
\* events of the window system are dropped there.
Listens(v) == v = "part_002"

\* BrowserWindow.isVisible(): shown and not minimized.
IsVisible(w) == w.visible /\ ~w.minimized

\* BrowserWindow.show() and showInactive() both leave the window shown; show()
\* also makes it the focused window of the desktop, which is recorded with the
\* handler's outcome (the `act` of an Effect), as is focus().
Show(w) == [w EXCEPT !.visible = TRUE]
ShowInactive(w) == [w EXCEPT !.visible = TRUE]

\* A hide() that is reported with a 'hide' event even when nothing was shown.
HideAlwaysReported(w, v) ==
  [w EXCEPT !.visible = FALSE,
            !.hidePending = IF Listens(v) THEN @ + 1 ELSE @]

\* BrowserWindow.hide(): a shown window is hidden and the window system will
\* report it with a 'hide' event (queued when somebody listens).
Hide(w, v) ==
  [w EXCEPT !.visible = FALSE,
            !.hidePending = IF w.visible /\ Listens(v) THEN @ + 1 ELSE @]

\* BrowserWindow.restore()
Restore(w) == [w EXCEPT !.minimized = FALSE]

\* setAlwaysOnTop(true, 'screen-saver'); setVisibleOnAllWorkspaces(true)
PinOnTop(w) == [w EXCEPT !.onTop = TRUE, !.allWS = TRUE]

SetIgnoreMouseEvents(w, ignore) == [w EXCEPT !.ignoreMouse = ignore]

\* ------------------------------------------------------------ the globals
NumCreated == Cardinality({g \in Gens : ov[g].st # "none"})
LiveOverlays == {g \in Gens : ov[g].st = "live"}

\* `overlayWindow && !overlayWindow.isDestroyed()`
RefLive(ref, wins) == ref # 0 /\ wins[ref].st = "live"
OverlayLive == RefLive(overlayWindow, ov)

\* The overlay the user sees, if any.
OverlayVisible == OverlayLive /\ IsVisible(ov[overlayWindow])

\* How a handler ended.  guard: "none" the handler does not go through
\* safeOverlayOperation; "skipped" the guard returned false without invoking the
\* operation; "ran" the operation returned normally; "caught" the operation threw
\* and the guard returned false.  stale: a method was invoked on a destroyed
\* window or through a null reference.  fault: a call of the window system threw.
\* uncaught: an exception left the handler.  act: the handler made the overlay
\* the focused window (show() or focus() succeeded).
\* info: for 'crashed', 'closed' and the crash timer, the generation of the window
\* the signal was about and whether that window was visible when it came; made:
\* the handler created an overlay window.
NoInfo == [gen |-> 0, vis |-> FALSE, made |-> FALSE]

Outcome(ev, guard, stale, fault, uncaught) ==
  [ev |-> ev, guard |-> guard, stale |-> stale, fault |-> fault,
   uncaught |-> uncaught, act |-> FALSE, info |-> NoInfo]

Note(ev) == Outcome(ev, "none", FALSE, FALSE, FALSE)

\* The overlay page as it is loaded into a new window: nothing displayed, no
\* auto-hide timer, pinned flag clear.  hiddenBy: what moved the state to Hidden
\* last.  pre: the state the page was in when its window was lost.  cancelled:
\* how many active timers the page's last event cancelled.  inflight: commands
\* sent with send-command that the backend has not answered.  honored: the user
\* clicked or hovered the overlay while such a command was in flight, since the
\* last command was sent.
UiInit ==
  [state |-> "Hidden", pinned |-> FALSE, timers |-> <<>>, hiddenBy |-> "none",
   pre |-> "none", cancelled |-> 0, inflight |-> 0, honored |-> FALSE]

\* What the last command handler resolved to: the fields success, error and
\* result of the returned object, the handler that returned it, and answer, what
\* the backend had said to the request.  NoReply: no command was answered yet.
NoReply ==
  [handler |-> "none", answer |-> "none", success |-> TRUE, error |-> "",
   result |-> ""]

\* The application once app.whenReady has run: main and overlay window created,
\* registerGlobalShortcuts called once, the backend spawned (or found healthy
\* and not spawned) with the 2 s exitTimer of its 'close' handler pending.
\* regs: callbacks registered for the toggle key.  mainGen: main windows created.
\* beforeQuit: 'before-quit' was emitted.  proc, alt: the spawned backend and the
\* alternate of the quick-fail fallback ("none", "running", "killed": signalled
\* and not yet reported closed, "closed").  lateSpawn: a backend was spawned
\* after before-quit.  display: the work area of the primary display.  pos: the
\* position of the overlay window the global refers to.  context: the stored
\* conversation context, 0 for the empty one, i for the one the backend returned
\* to the i-th command.  sent: commands sent.  flying: the commands the backend
\* has not answered.  log: what changed or could have changed the context, in
\* the order it happened.  calls: the startBackend calls made by ensure-backend
\* requests, each with the processes and the timer of its own closure.  poll:
\* the health poll of the startup call: attempts, its counter; pending, the
\* probes not answered yet, each by the number of interval ticks since it was
\* started; cleared, clearInterval was called; healthy, a probe was answered
\* healthy.
OverlayWidth == 700    \* width of the overlay window
InitialY == 100        \* y the overlay window is created at

PrimaryDisplay == [w |-> 1440, h |-> 900]

\* createOverlayWindow: x: (width - 700) / 2, y: 100.  A window position is a
\* whole number of pixels.
InitialPosition(d) == [x |-> (d.w - OverlayWidth) \div 2, y |-> InitialY]

AppInit(spawned) ==
  [phase |-> "running", regs |-> 1, mainGen |-> 1,
   beforeQuit |-> FALSE,
   proc |-> IF spawned THEN "running" ELSE "none", exitTimer |-> spawned,
   alt |-> "none", lateSpawn |-> FALSE,
   display |-> PrimaryDisplay, pos |-> InitialPosition(PrimaryDisplay),
   context |-> 0, sent |-> 0, flying |-> {}, log |-> <<>>,
   calls |-> <<>>,
   poll |-> [attempts |-> 0, pending |-> {}, cleared |-> FALSE, healthy |-> FALSE]]

InitOn(d) ==
  /\ variant \in Variants
  /\ ov = [g \in Gens |-> IF g = 1 THEN NewOverlay(variant) ELSE NoWindow("none")]
  /\ overlayWindow = 1
  /\ mainWindow = TRUE
  /\ allowOverlayHide = FALSE
  /\ resetTimers = <<>>
  /\ recreateTimers = <<>>
  /\ last = Outcome("init", "none", FALSE, FALSE, FALSE)
  /\ toggleRun = 0
  /\ expectVisible = FALSE
  /\ recreations = 0
  /\ ui = UiInit
  /\ reply = NoReply
  /\ app = [AppInit(TRUE) EXCEPT !.display = d, !.pos = InitialPosition(d)]

Init == InitOn(PrimaryDisplay)

\* ------------------------------------------------ safeOverlayOperation
\* What running an operation on the overlay does: the window afterwards, the
\* globals it assigns, whether an exception left the operation, and whether it
\* gave the overlay the focus.
Eff(w) ==
  [win |-> w, allow |-> allowOverlayHide, timers |-> resetTimers, threw |-> FALSE,
   act |-> FALSE]

Throws(eff) == [eff EXCEPT !.threw = TRUE]
Activates(eff) == [eff EXCEPT !.act = TRUE]

WinOf(wins, ref) == IF ref # 0 THEN wins[ref] ELSE NoWindow("none")
CurrentWin == WinOf(ov, overlayWindow)
NoEffect == Eff(CurrentWin)

\* A guard that lost its test and runs the operation on whatever the global holds.
GuardPassesAlways(ref, wins) == TRUE

\* The guard's test: if (overlayWindow && !overlayWindow.isDestroyed())
GuardPasses(ref, wins) == RefLive(ref, wins)

\* A guard that calls the operation outside any try/catch.
GuardCatchesNothing == FALSE

\* try { return operation(overlayWindow) } catch (error) { ...; return false }
\* TRUE: an exception thrown by the operation stops at the guard.
GuardCatches == TRUE

\* safeOverlayOperation(operation), `eff` being what operation(overlayWindow)
\* does on a live window.  An operation entered on a destroyed window or with a
\* null argument throws at its first method call, before it changed anything.
SafeOverlayOperation(eff) ==
  IF GuardPasses(overlayWindow, ov)
  THEN IF ~RefLive(overlayWindow, ov)
       THEN [guard |-> IF GuardCatches THEN "caught" ELSE "none", stale |-> TRUE,
             fault |-> FALSE, uncaught |-> ~GuardCatches, eff |-> NoEffect]
       ELSE [guard |-> IF ~eff.threw THEN "ran"
                       ELSE IF GuardCatches THEN "caught" ELSE "none",
             stale |-> FALSE, fault |-> eff.threw,
             uncaught |-> eff.threw /\ ~GuardCatches, eff |-> eff]
  ELSE [guard |-> "skipped", stale |-> FALSE, fault |-> FALSE,
        uncaught |-> FALSE, eff |-> NoEffect]

\* The state after a handler that went through the guard.
Commit(r, ev) ==
  /\ ov' = IF overlayWindow # 0 THEN [ov EXCEPT ![overlayWindow] = r.eff.win] ELSE ov
  /\ allowOverlayHide' = r.eff.allow
  /\ resetTimers' = r.eff.timers
  /\ last' = [Outcome(ev, r.guard, r.stale, r.fault, r.uncaught) EXCEPT
                !.act = r.eff.act]

\* expectVisible after a handler: cleared by the hotkey's hide, set by whatever
\* leaves the overlay visible.
ExpectAfter(dismissed) == IF dismissed THEN FALSE ELSE expectVisible \/ OverlayVisible'

\* ------------------------------------------------------- the toggle hotkey
\* A call of the window system that may throw inside the show branch.
Faults == {"none", "show", "focus", "send"}

\* main.js: if (overlay.isVisible()) overlay.hide(); else { setAlwaysOnTop;
\* setVisibleOnAllWorkspaces; show; focus; webContents.send('focus-input');
\* setIgnoreMouseEvents(false) }.  A throwing call ends the operation there.
ToggleOpMain(w, fault) ==
  IF IsVisible(w)
  THEN Eff(Hide(w, "main"))
  ELSE CASE fault = "show"  -> Throws(Eff(PinOnTop(w)))
         [] fault = "focus" -> Throws(Activates(Eff(Show(PinOnTop(w)))))
         [] fault = "send"  -> Throws(Activates(Eff(Show(PinOnTop(w)))))
         [] OTHER           -> Activates(Eff(SetIgnoreMouseEvents(Show(PinOnTop(w)), FALSE)))

\* setTimeout(() => { allowOverlayHide = false; }, 1500), armed while `ahead`
\* 'hide' events are queued.  The window system delivers an event within
\* milliseconds, so the timer cannot fire before the events queued ahead of it.
ArmResetTimer(timers, ahead) == Append(timers, ahead)

\* part_002: the hide branch sets allowOverlayHide, hides, returns the window to
\* click-through and arms the 1500 ms safety reset; the show branch falls back to
\* showInactive when show throws and ignores a throwing focus.
ToggleOpPart002(w, fault) ==
  IF IsVisible(w)
  THEN [Eff(SetIgnoreMouseEvents(Hide(w, "part_002"), TRUE)) EXCEPT
          !.allow = TRUE,
          !.timers = ArmResetTimer(resetTimers, Hide(w, "part_002").hidePending)]
  ELSE CASE fault = "show"  ->
              Activates(Eff(SetIgnoreMouseEvents(ShowInactive(PinOnTop(w)), FALSE)))
         [] fault = "focus" ->
              Activates(Eff(SetIgnoreMouseEvents(Show(PinOnTop(w)), FALSE)))
         [] fault = "send"  -> Throws(Activates(Eff(Show(PinOnTop(w)))))
         [] OTHER           ->
              Activates(Eff(SetIgnoreMouseEvents(Show(PinOnTop(w)), FALSE)))

ToggleOp(w, v, fault) ==
  IF v = "main" THEN ToggleOpMain(w, fault) ELSE ToggleOpPart002(w, fault)

\* globalShortcut.register(shortcut, () => safeOverlayOperation(...))
HotkeyToggleStep ==
  \E fault \in Faults :
    /\ fault # "none" => OverlayLive /\ ~IsVisible(CurrentWin)
    /\ (variant = "part_002" /\ OverlayVisible) =>
          Len(resetTimers) < MaxResetTimers /\ CurrentWin.hidePending < MaxHidePending
    /\ Commit(SafeOverlayOperation(ToggleOp(CurrentWin, variant, fault)), "toggle")
    /\ toggleRun' = IF toggleRun >= 0 /\ toggleRun < MaxToggleRun /\ fault = "none"
                    THEN toggleRun + 1 ELSE -1
    /\ UNCHANGED <<variant, recreations, overlayWindow, mainWindow, recreateTimers>>
    /\ expectVisible' = ExpectAfter(OverlayVisible)

HotkeyToggle == HotkeyToggleStep /\ UNCHANGED <<ui, reply, app>>

\* A blur handler that dismisses the overlay when it loses the focus.
BlurHandlerHiding(w) == [PinOnTop(w) EXCEPT !.visible = FALSE]

\* overlayWindow.on('blur'): setAlwaysOnTop and setVisibleOnAllWorkspaces on the
\* global, without a test.
BlurHandler(w) == PinOnTop(w)

\* The shown overlay g stops being the focused window (the user clicked it, or a
\* handler focused it, and now turns to another application).
Blur ==
  \E g \in LiveOverlays :
    /\ ov[g].visible
    /\ IF RefLive(overlayWindow, ov)
       THEN /\ ov' = [ov EXCEPT ![overlayWindow] = BlurHandler(@)]
            /\ last' = Note("blur")
       ELSE /\ ov' = ov
            /\ last' = Outcome("blur", "none", TRUE, FALSE, TRUE)
    /\ toggleRun' = -1
    /\ UNCHANGED <<variant, recreations, ui, reply, app, overlayWindow, mainWindow, allowOverlayHide, resetTimers,
                   recreateTimers>>
    /\ expectVisible' = ExpectAfter(FALSE)

\* ------------------------------------------- events of the window system
\* The window system hides the shown overlay (the application is hidden, the
\* window becomes fully occluded); it reports it with a 'hide' event.
OsHide ==
  \E g \in LiveOverlays :
    /\ ov[g].visible
    /\ Listens(variant) => ov[g].hidePending < MaxHidePending
    /\ ov' = [ov EXCEPT ![g] = Hide(ov[g], variant)]
    /\ last' = Note("os-hide")
    /\ toggleRun' = -1
    /\ UNCHANGED <<variant, recreations, ui, reply, app, overlayWindow, mainWindow, allowOverlayHide, resetTimers,
                   recreateTimers>>
    /\ expectVisible' = ExpectAfter(FALSE)

\* part_002, overlayWindow.on('hide'): a hide allowed by the shortcut is accepted
\* and the flag reset; any other hide is undone with showInactive.
HideHandler(w, allow) ==
  IF allow
  THEN [Eff(w) EXCEPT !.allow = FALSE]
  ELSE Eff(PinOnTop(ShowInactive(w)))

\* Delivery of a queued 'hide' event of window g.  The handler reaches the window
\* through the global inside try/catch.
HideEventStep ==
  \E g \in LiveOverlays :
    /\ ov[g].hidePending > 0
    /\ LET delivered == [ov EXCEPT ![g].hidePending = @ - 1]
           eff == HideHandler(WinOf(delivered, overlayWindow), allowOverlayHide)
       IN  IF allowOverlayHide \/ RefLive(overlayWindow, ov)
           THEN /\ ov' = IF overlayWindow = 0 THEN delivered
                         ELSE [delivered EXCEPT ![overlayWindow] = eff.win]
                /\ allowOverlayHide' = eff.allow
                /\ last' = Note("hide")
           ELSE /\ ov' = delivered
                /\ allowOverlayHide' = allowOverlayHide
                /\ last' = Outcome("hide", "none", TRUE, FALSE, FALSE)
    /\ resetTimers' = [i \in 1..Len(resetTimers) |->
                          IF resetTimers[i] > 0 THEN resetTimers[i] - 1 ELSE 0]
    /\ toggleRun' = toggleRun
    /\ UNCHANGED <<variant, recreations, overlayWindow, mainWindow, recreateTimers>>
    /\ expectVisible' = ExpectAfter(FALSE)

HideEvent == HideEventStep /\ UNCHANGED <<ui, reply, app>>

\* part_002: setTimeout(() => { allowOverlayHide = false; }, 1500) fires.
SafetyResetTimerStep ==
  /\ resetTimers # <<>>
  /\ Head(resetTimers) = 0
  /\ resetTimers' = Tail(resetTimers)
  /\ allowOverlayHide' = FALSE
  /\ last' = Note("reset-timer")
  /\ UNCHANGED <<variant, recreations, ov, overlayWindow, mainWindow, recreateTimers, toggleRun,
                 expectVisible>>

SafetyResetTimer == SafetyResetTimerStep /\ UNCHANGED <<ui, reply, app>>

\* The window system minimizes the shown overlay and reports it with 'minimize'.
OsMinimize ==
  \E g \in LiveOverlays :
    /\ IsVisible(ov[g])
    /\ ~ov[g].minPending
    /\ ov' = [ov EXCEPT ![g].minimized = TRUE, ![g].minPending = Listens(variant)]
    /\ last' = Note("os-minimize")
    /\ toggleRun' = -1
    /\ UNCHANGED <<variant, recreations, ui, reply, app, overlayWindow, mainWindow, allowOverlayHide, resetTimers,
                   recreateTimers>>
    /\ expectVisible' = ExpectAfter(FALSE)

\* part_002, overlayWindow.on('minimize'): restore, showInactive, pin on top.
MinimizeHandler(w) == PinOnTop(ShowInactive(Restore(w)))

MinimizeEvent ==
  \E g \in LiveOverlays :
    /\ ov[g].minPending
    /\ LET delivered == [ov EXCEPT ![g].minPending = FALSE]
       IN  IF RefLive(overlayWindow, ov)
           THEN /\ ov' = [delivered EXCEPT ![overlayWindow] =
                                              MinimizeHandler(delivered[overlayWindow])]
                /\ last' = Note("minimize")
           ELSE /\ ov' = delivered
                /\ last' = Outcome("minimize", "none", TRUE, FALSE, FALSE)
    /\ toggleRun' = -1
    /\ UNCHANGED <<variant, recreations, ui, reply, app, overlayWindow, mainWindow, allowOverlayHide, resetTimers,
                   recreateTimers>>
    /\ expectVisible' = ExpectAfter(FALSE)

\* overlayWindow.on('closed'): overlayWindow = null.  Electron marks the window
\* destroyed and emits 'closed' in the same turn; events still queued for the
\* window are dropped with it.
ClosedHandler == 0

Destroyed(g, ev) ==
  /\ NumCreated < MaxGen
  /\ ov' = [ov EXCEPT ![g] = NoWindow("destroyed")]
  /\ overlayWindow' = ClosedHandler
  /\ last' = [Note(ev) EXCEPT !.info = [gen |-> g, vis |-> IsVisible(ov[g]), made |-> FALSE]]
  /\ resetTimers' = [i \in 1..Len(resetTimers) |-> 0]
  /\ toggleRun' = -1
  /\ UNCHANGED <<variant, recreations, mainWindow, allowOverlayHide, recreateTimers>>
  /\ expectVisible' = ExpectAfter(FALSE)

\* The window is destroyed without a close request (BrowserWindow.destroy, the
\* window system reclaiming it).
DestroyStep == \E g \in LiveOverlays : Destroyed(g, "closed")

Destroy == DestroyStep /\ UNCHANGED <<ui, reply, app>>

\* A close request on the overlay.  main.js registers no 'close' listener: the
\* window closes.  part_002, overlayWindow.on('close'): e.preventDefault() and
\* try { overlayWindow.hide() } catch (_) {}.
CloseAttemptStep ==
  \E g \in LiveOverlays :
    IF variant = "main"
    THEN Destroyed(g, "close")
    ELSE /\ CurrentWin.visible => CurrentWin.hidePending < MaxHidePending
         /\ IF RefLive(overlayWindow, ov)
            THEN /\ ov' = [ov EXCEPT ![overlayWindow] = Hide(ov[overlayWindow], variant)]
                 /\ last' = Note("close")
            ELSE /\ ov' = ov
                 /\ last' = Outcome("close", "none", TRUE, FALSE, FALSE)
         /\ toggleRun' = -1
         /\ UNCHANGED <<variant, recreations, overlayWindow, mainWindow, allowOverlayHide,
                        resetTimers, recreateTimers>>
         /\ expectVisible' = ExpectAfter(FALSE)

CloseAttempt == CloseAttemptStep /\ UNCHANGED <<ui, reply, app>>

\* ------------------------------------------------------- crash and recreate
\* createOverlayWindow(): a new BrowserWindow, created hidden, assigned to the
\* global.  The generation id is the number of overlay windows created so far.
CreateOverlayWindow(wins) == [wins EXCEPT ![NumCreated + 1] = NewOverlay(variant)]

\* The renderer of overlay g is gone; the BrowserWindow itself stays.
\* webContents.on('crashed'): setTimeout(recreate check, 1000).
CrashedStep ==
  \E g \in LiveOverlays :
    /\ ~ov[g].crashed
    /\ ov' = [ov EXCEPT ![g].crashed = TRUE]
    /\ recreateTimers' = Append(recreateTimers,
                                [gen |-> g, vis |-> IsVisible(ov[g]), made |-> FALSE])
    /\ last' = [Note("crashed") EXCEPT
                  !.info = [gen |-> g, vis |-> IsVisible(ov[g]), made |-> FALSE]]
    /\ toggleRun' = -1
    /\ UNCHANGED <<variant, recreations, overlayWindow, mainWindow, allowOverlayHide, resetTimers>>
    /\ expectVisible' = ExpectAfter(FALSE)

Crashed == CrashedStep /\ UNCHANGED <<ui, reply, app>>

\* A crash timer that recreates the overlay without looking at the global.
NeedsRecreateAlways(ref, wins) == TRUE

\* The crash timer's test: if (!overlayWindow || overlayWindow.isDestroyed())
NeedsRecreate(ref, wins) == ~RefLive(ref, wins)

\* The crash timer fires, 1000 ms after the 'crashed' event that armed it.
RecreateTimerStep ==
  /\ recreateTimers # <<>>
  /\ recreateTimers' = Tail(recreateTimers)
  /\ IF NeedsRecreate(overlayWindow, ov)
     THEN /\ NumCreated < MaxGen
          /\ ov' = CreateOverlayWindow(ov)
          /\ overlayWindow' = NumCreated + 1
          /\ recreations' = recreations + 1
          /\ last' = [Note("crash-timer") EXCEPT
                        !.info = [Head(recreateTimers) EXCEPT !.made = TRUE]]
     ELSE /\ UNCHANGED <<ov, overlayWindow, recreations>>
          /\ last' = [Note("crash-timer") EXCEPT !.info = Head(recreateTimers)]
  /\ toggleRun' = -1
  /\ UNCHANGED <<variant, mainWindow, allowOverlayHide, resetTimers>>
  /\ expectVisible' = ExpectAfter(FALSE)

RecreateTimer == RecreateTimerStep /\ UNCHANGED <<ui, reply, app>>

\* app.on('activate'): with no window at all both are created; otherwise each
\* missing one.
ActivateStep ==
  /\ ~OverlayLive \/ ~mainWindow
  /\ IF (LiveOverlays = {} /\ ~mainWindow) \/ ~OverlayLive
     THEN /\ NumCreated < MaxGen
          /\ ov' = CreateOverlayWindow(ov)
          /\ overlayWindow' = NumCreated + 1
          /\ last' = [Note("activate") EXCEPT !.info.made = TRUE]
     ELSE /\ UNCHANGED <<ov, overlayWindow>>
          /\ last' = Note("activate")
  /\ mainWindow' = TRUE
  /\ toggleRun' = -1
  /\ UNCHANGED <<variant, recreations, allowOverlayHide, resetTimers, recreateTimers>>
  /\ expectVisible' = ExpectAfter(FALSE)

Activate == ActivateStep /\ UNCHANGED <<ui, reply, app>>

\* ------------------------------------------------- other entry points
\* app.on('second-instance'): restore if minimized, focus, show, in the guard.
SecondInstanceOp(w) ==
  Activates(Eff(Show(IF w.minimized THEN Restore(w) ELSE w)))

SecondInstance ==
  /\ Commit(SafeOverlayOperation(SecondInstanceOp(CurrentWin)), "second-instance")
  /\ toggleRun' = -1
  /\ UNCHANGED <<variant, recreations, ui, reply, app, overlayWindow, mainWindow, recreateTimers>>
  /\ expectVisible' = ExpectAfter(FALSE)

\* part_002, the capture shortcut, after `await axios.post(.../capture_screenshot)`:
\* on an answer the overlay is pinned on top, shown inactive and sent the result;
\* on an error the result is sent only.  When showInactive throws the handler
\* falls back to show().  Nothing of the controller changes while the request is
\* out, so the handler is modelled at the answer.
CaptureOp(w, ok, fault) ==
  IF ~ok THEN Eff(w)
  ELSE IF fault THEN Activates(Eff(Show(PinOnTop(w))))
  ELSE Eff(ShowInactive(PinOnTop(w)))

CaptureShortcut ==
  \E ok \in BOOLEAN, fault \in BOOLEAN :
    /\ variant = "part_002"
    /\ fault => ok
    /\ Commit(SafeOverlayOperation(CaptureOp(CurrentWin, ok, fault)), "capture")
    /\ toggleRun' = -1
    /\ UNCHANGED <<variant, recreations, ui, reply, app, overlayWindow, mainWindow, recreateTimers>>
    /\ expectVisible' = ExpectAfter(FALSE)

\* part_002, the refresh shortcut, after the backend confirmed /refresh_context:
\* the overlay is sent 'context-refreshed' inside the guard.
RefreshOp(w, fault) == IF fault THEN Throws(Eff(w)) ELSE Eff(w)

RefreshShortcut ==
  \E fault \in BOOLEAN :
    /\ variant = "part_002"
    /\ fault => OverlayLive
    /\ Commit(SafeOverlayOperation(RefreshOp(CurrentWin, fault)), "refresh")
    /\ toggleRun' = -1
    /\ UNCHANGED <<variant, recreations, ui, reply, app, overlayWindow, mainWindow, recreateTimers>>
    /\ expectVisible' = ExpectAfter(FALSE)

\* ipcMain.on('set-ignore-mouse-events'): guarded inline.  The overlay's page sends
\* it as the pointer enters and leaves its content, so while the overlay is shown
\* and its renderer alive; a message already sent may arrive after the window is
\* gone.
SetIgnoreMouseEventsIpc ==
  \E ignore \in BOOLEAN :
    /\ OverlayLive => CurrentWin.visible /\ ~CurrentWin.crashed
    /\ IF RefLive(overlayWindow, ov)
       THEN ov' = [ov EXCEPT ![overlayWindow] = SetIgnoreMouseEvents(@, ignore)]
       ELSE ov' = ov
    /\ last' = Note("set-ignore-mouse-events")
    /\ toggleRun' = -1
    /\ UNCHANGED <<variant, recreations, ui, reply, app, overlayWindow, mainWindow, allowOverlayHide, resetTimers,
                   recreateTimers>>
    /\ expectVisible' = ExpectAfter(FALSE)

\* What the backend answered to a send-command: a response of type chat or
\* action, a response of another type, or a failed request.
Answers == {"chat", "action", "other", "error"}

\* main.js forwards a chat or action response with overlayWindow.webContents.send,
\* reaching the window through the global without a test; part_002 returns the
\* response and touches no window.
SendCommandTouchesOverlay(v, answer) == v = "main" /\ answer \in {"chat", "action"}

\* A webContents.send that needs a shown window.
ForwardThrowsWhenHidden(w) == w.st # "live" \/ ~w.visible

\* overlayWindow.webContents.send(...) throws when the global is null or its
\* window destroyed; a hidden window receives the message like a shown one.
ForwardThrows(w) == w.st # "live"

\* ipcMain.handle('send-command'), resumed after `await axios.post` with the
\* backend's answer.  The first half of the handler only sends the request, and the
\* answer may take up to the 30 s timeout, so it arrives in any later state of the
\* controller.  An exception of the forwarding call lands in the handler's catch.
SendCommandStep(answer) ==
    /\ last' = Outcome("send-command", "none",
                       SendCommandTouchesOverlay(variant, answer) /\ ForwardThrows(CurrentWin),
                       FALSE, FALSE)
    /\ toggleRun' = -1
    /\ UNCHANGED <<variant, recreations, ov, overlayWindow, mainWindow, allowOverlayHide,
                   resetTimers, recreateTimers, expectVisible>>

SendCommand == \E answer \in Answers : SendCommandStep(answer) /\ UNCHANGED <<ui, reply, app>>

\* ------------------------------------------------- what the handlers return
\* How a request to the backend fails: connection refused (ECONNREFUSED), socket
\* timeout (ETIMEDOUT), axios' own timeout (ECONNABORTED, no branch of the catch),
\* a response with an error status, anything else.
ErrorKinds == {"refused", "timedout", "aborted", "http", "other"}

\* error.response.data.error of an error response; "" when the body has none.
DataErrors == {"", "Unknown command"}

Handlers == {"send-command", "send-command-confirmation"}

\* The object a successful request resolves to: response.data, as it came.
BackendResponse(handler, answer) ==
  [handler |-> handler, answer |-> answer, success |-> TRUE, error |-> "",
   result |-> answer]

\* let errorMessage = ...; the branches on error.code and error.response.
ErrorMessage(handler, kind) ==
  CASE kind = "refused" -> "Backend service is not running"
    [] kind = "timedout" -> "Backend service is not responding (timeout)"
    [] kind = "http" -> "Backend error: 500 - Internal Server Error"
    [] OTHER -> IF handler = "send-command"
                THEN "Failed to connect to backend service"
                ELSE "Failed to confirm command with backend service"

DefaultSuggestion(handler) ==
  IF handler = "send-command"
  THEN "Please ensure the backend service is running with: npm run backend"
  ELSE "Please ensure the backend service is running"

SuggestionUnchecked(handler, kind, dataError) ==
  CASE kind = "timedout" -> "The backend may be overloaded or stuck"
    [] kind = "http" -> dataError
    [] OTHER -> DefaultSuggestion(handler)

\* let suggestion = ...; the body's error replaces it only when there is one.
Suggestion(handler, kind, dataError) ==
  CASE kind = "timedout" -> "The backend may be overloaded or stuck"
    [] kind = "http" /\ dataError # "" -> dataError
    [] OTHER -> DefaultSuggestion(handler)

\* The object the catch block returns.
ErrorReply(handler, answer, kind, dataError) ==
  [handler |-> handler, answer |-> answer, success |-> FALSE,
   error |-> ErrorMessage(handler, kind),
   result |-> Suggestion(handler, kind, dataError)]

\* What send-command resolves to.  The TypeError of forwarding through a null or
\* destroyed overlayWindow is thrown inside the try: it has neither code nor
\* response, so the catch answers with its defaults.
SendCommandReply(v, answer, live, kind, dataError) ==
  IF answer = "error" THEN ErrorReply("send-command", answer, kind, dataError)
  ELSE IF SendCommandTouchesOverlay(v, answer) /\ ~live
       THEN ErrorReply("send-command", answer, "other", "")
       ELSE BackendResponse("send-command", answer)

BridgeSendCommand ==
  \E answer \in Answers, kind \in ErrorKinds, dataError \in DataErrors :
    /\ answer # "error" => kind = "other" /\ dataError = ""
    /\ kind # "http" => dataError = ""
    /\ SendCommandStep(answer)
    /\ reply' = SendCommandReply(variant, answer, ~ForwardThrows(CurrentWin), kind, dataError)
    /\ UNCHANGED <<ui, app>>

\* ipcMain.handle('send-command-confirmation'), resumed after the
\* await: it returns response.data or the catch block's object and touches no
\* window.
SendCommandConfirmation ==
  \E ok \in BOOLEAN, kind \in ErrorKinds, dataError \in DataErrors :
    /\ ok => kind = "other"
    /\ kind # "http" => dataError = ""
    /\ reply' = IF ok THEN BackendResponse("send-command-confirmation", "other")
                ELSE ErrorReply("send-command-confirmation", "error", kind, dataError)
    /\ last' = Note("send-command-confirmation")
    /\ toggleRun' = -1
    /\ UNCHANGED <<variant, recreations, ov, overlayWindow, mainWindow, allowOverlayHide,
                   resetTimers, recreateTimers, expectVisible, ui, app>>

\* error.message of the axios error, by kind.
AxiosMessage(kind) ==
  CASE kind = "refused" -> "connect ECONNREFUSED 127.0.0.1:5000"
    [] kind = "timedout" -> "connect ETIMEDOUT"
    [] kind = "aborted" -> "timeout of 10000ms exceeded"
    [] kind = "http" -> "Request failed with status code 500"
    [] OTHER -> "Network Error"

\* ipcMain.handle('send-command') of scripts/test-overlay-direct.js, which runs in place
\* of the application's handler when the overlay is tested on its own.
TestSendCommand ==
  \E ok \in BOOLEAN, kind \in ErrorKinds :
    /\ ok => kind = "other"
    /\ reply' = IF ok THEN BackendResponse("test-send-command", "other")
                ELSE [handler |-> "test-send-command", answer |-> "error",
                      success |-> FALSE, error |-> AxiosMessage(kind),
                      result |-> "Failed to connect to backend"]
    /\ last' = Note("test-send-command")
    /\ toggleRun' = -1
    /\ UNCHANGED <<variant, recreations, ov, overlayWindow, mainWindow, allowOverlayHide,
                   resetTimers, recreateTimers, expectVisible, ui, app>>

NextBridge ==
  \/ BridgeSendCommand
  \/ SendCommandConfirmation
  \/ TestSendCommand
  \/ HotkeyToggle
  \/ HideEvent
  \/ SafetyResetTimer
  \/ Destroy
  \/ Activate

\* The controller with its command handlers: what the page gets back from
\* send-command while the overlay window is toggled, destroyed and recreated.
SpecBridge == Init /\ [][NextBridge]_vars

\* ------------------------------------------- the overlay page (content layer)
\* overlay-unified.html, which createOverlayWindow loads, holds the visibility
\* state machine and the auto-hide timers.  The page is not part of the sources;
\* its transitions are those of the specification's table (Visibility State
\* Machine, Auto-Hide Timer Manager).
Kinds == {"plain", "detailed", "ai"}

\* The configured duration of the auto-hide timer of a response kind, in seconds.
Duration(kind) ==
  CASE kind = "plain"    -> 5
    [] kind = "detailed" -> 10
    [] kind = "ai"       -> 15

\* schedule(responseKind) keeping the timers already active.
StartTimerKeeping(timers, kind) ==
  Append(timers, [kind |-> kind, duration |-> Duration(kind)])

\* schedule(responseKind): starting a timer cancels any previous one.
StartTimer(timers, kind) == <<[kind |-> kind, duration |-> Duration(kind)]>>

\* Hidden -> Showing on the hotkey (stale timer cleared); any visible state ->
\* Hidden on the hotkey (timer cancelled, pinned flag reset).
OnToggle(u, shown) ==
  IF shown
  THEN [u EXCEPT !.state = "Showing", !.pinned = FALSE, !.timers = <<>>,
                 !.hiddenBy = "none", !.pre = "none", !.cancelled = Len(u.timers)]
  ELSE [u EXCEPT !.state = "Hidden", !.pinned = FALSE, !.timers = <<>>,
                 !.hiddenBy = "toggle", !.pre = "none", !.cancelled = Len(u.timers)]

\* A result that starts its timer in any state.
OnResultAlwaysTimed(u, kind) ==
  [u EXCEPT !.timers = StartTimer(u.timers, kind), !.cancelled = Len(u.timers)]

\* result received: while Showing the auto-hide timer is (re)started, sized by
\* the response kind; Pinned suppresses timer creation.
OnResult(u, kind) ==
  IF u.state = "Showing"
  THEN [u EXCEPT !.timers = StartTimer(u.timers, kind),
                 !.cancelled = Len(u.timers) + 1 - Len(StartTimer(u.timers, kind))]
  ELSE [u EXCEPT !.cancelled = 0]

\* A click that leaves the timer running.
OnInteractionKeepingTimer(u) ==
  IF u.state = "Showing"
  THEN [u EXCEPT !.state = "Pinned", !.pinned = TRUE, !.cancelled = 0]
  ELSE [u EXCEPT !.cancelled = 0]

\* Clicked or HoverEntered while Showing: Pinned, the timer cancelled.
OnInteraction(u) ==
  IF u.state = "Showing"
  THEN [u EXCEPT !.state = "Pinned", !.pinned = TRUE, !.timers = <<>>,
                 !.cancelled = Len(u.timers), !.honored = @ \/ u.inflight > 0]
  ELSE [u EXCEPT !.cancelled = 0, !.honored = @ \/ u.inflight > 0]

\* HoverExited while Pinned: back to Showing; no timer is started and the pin
\* persists.
OnHoverExited(u) ==
  IF u.state = "Pinned"
  THEN [u EXCEPT !.state = "Showing", !.cancelled = 0]
  ELSE [u EXCEPT !.cancelled = 0]

\* KeyEscape while Pinned lowers the surface.
EscapeHides(u) == u.state = "Pinned"

OnEscape(u) ==
  IF EscapeHides(u)
  THEN [u EXCEPT !.state = "Hidden", !.pinned = FALSE, !.timers = <<>>,
                 !.hiddenBy = "escape", !.cancelled = Len(u.timers)]
  ELSE [u EXCEPT !.cancelled = 0]

\* A timer that hides whenever the state is Showing, pinned or not.
FireHidesIgnoringPin(u) == u.state = "Showing"

\* A firing timer hides only while the state is still Showing and the overlay was
\* not pinned.
FireHides(u) == u.state = "Showing" /\ ~u.pinned

OnTimerFire(u) ==
  IF FireHides(u)
  THEN [u EXCEPT !.state = "Hidden", !.timers = Tail(u.timers), !.hiddenBy = "timer",
                 !.cancelled = 0]
  ELSE [u EXCEPT !.timers = Tail(u.timers), !.cancelled = 0]

\* The page of a lost window is gone with its state and its timers.
\* The requests the main process awaits stay in flight.
OnWindowLost(u) ==
  [UiInit EXCEPT !.pre = IF u.state = "Hidden" THEN u.pre ELSE u.state,
                 !.inflight = u.inflight]

\* The page can receive input: its window is shown and its renderer alive.
PageShown == OverlayVisible /\ ~CurrentWin.crashed
PageAlive == OverlayLive /\ ~CurrentWin.crashed

\* The hotkey, with the page following the window: shown on 'focus-input',
\* hidden with its window.
UiHotkeyToggle ==
  /\ HotkeyToggleStep
  /\ ui' = IF PageAlive THEN OnToggle(ui, OverlayVisible') ELSE ui
  /\ UNCHANGED <<reply, app>>

\* What is left unchanged by an event that only the page handles.
PageOnly ==
  UNCHANGED <<variant, ov, overlayWindow, mainWindow, allowOverlayHide, resetTimers,
              recreateTimers, toggleRun, expectVisible, recreations, reply,
              app>>

\* The page displays a result of the command bridge.
UiResult ==
  \E kind \in Kinds :
    /\ PageAlive /\ ui.state # "Hidden"
    /\ ui' = OnResult(ui, kind)
    /\ last' = Note("result")
    /\ PageOnly

UiClicked ==
  /\ PageShown /\ ui.state # "Hidden"
  /\ ui' = OnInteraction(ui)
  /\ last' = Note("clicked")
  /\ PageOnly

UiHoverEntered ==
  /\ PageShown /\ ui.state # "Hidden"
  /\ ui' = OnInteraction(ui)
  /\ last' = Note("hover-entered")
  /\ PageOnly

UiHoverExited ==
  /\ PageShown /\ ui.state = "Pinned"
  /\ ui' = OnHoverExited(ui)
  /\ last' = Note("hover-exited")
  /\ PageOnly

\* "lower surface": the window is hidden through the guard.
LowerSurface(ev, dismissed) ==
  /\ (Listens(variant) /\ OverlayVisible) => CurrentWin.hidePending < MaxHidePending
  /\ Commit(SafeOverlayOperation(Eff(Hide(CurrentWin, variant))), ev)
  /\ toggleRun' = -1
  /\ UNCHANGED <<variant, recreations, overlayWindow, mainWindow, recreateTimers,
                 reply, app>>
  /\ expectVisible' = ExpectAfter(dismissed)

UiKeyEscape ==
  /\ PageShown /\ ui.state # "Hidden"
  /\ ui' = OnEscape(ui)
  /\ IF EscapeHides(ui)
     THEN LowerSurface("escape", TRUE)
     ELSE last' = Note("escape") /\ PageOnly

\* The oldest active auto-hide timer of the page fires.
UiTimerFire ==
  /\ ui.timers # <<>>
  /\ ui' = OnTimerFire(ui)
  /\ IF FireHides(ui)
     THEN LowerSurface("auto-hide", FALSE)
     ELSE last' = Note("auto-hide") /\ PageOnly

\* The window, or its renderer, is lost, and the page with it.
UiDestroy == DestroyStep /\ ui' = OnWindowLost(ui) /\ UNCHANGED <<reply, app>>

UiCrashed == CrashedStep /\ ui' = OnWindowLost(ui) /\ UNCHANGED <<reply, app>>

\* ------------------------------------------------- a command in flight
MaxInflight == 1       \* send-command requests awaiting the backend at once

\* The user submits a command: the page invokes send-command, whose handler runs
\* up to `await axios.post` and returns to the event loop.
OnSubmit(u) == [u EXCEPT !.inflight = @ + 1, !.honored = FALSE, !.cancelled = 0]

Submit ==
  /\ PageShown /\ ui.state # "Hidden"
  /\ ui.inflight < MaxInflight
  /\ ui' = OnSubmit(ui)
  /\ last' = Note("submit")
  /\ PageOnly

\* What the backend says to a command in flight, as far as the page and the
\* handler tell the cases apart: a chat response, a refused connection.
FlightAnswers == {"chat", "error"}

\* The backend answers: the handler resumes after the await and returns, and the
\* page displays what it returned (a failure is displayed like any result).
FlightResult ==
  \E answer \in FlightAnswers, kind \in Kinds :
    /\ ui.inflight > 0
    /\ answer = "error" => kind = "plain"
    /\ SendCommandStep(answer)
    /\ reply' = SendCommandReply(variant, answer, ~ForwardThrows(CurrentWin), "refused", "")
    /\ ui' = IF PageAlive
             THEN OnResult([ui EXCEPT !.inflight = @ - 1], kind)
             ELSE [ui EXCEPT !.inflight = @ - 1, !.cancelled = 0]
    /\ UNCHANGED app

NextFlight ==
  \/ Submit
  \/ FlightResult
  \/ UiHotkeyToggle
  \/ UiClicked
  \/ UiHoverEntered
  \/ UiTimerFire
  \/ HideEvent
  \/ SafetyResetTimer
  \/ UiDestroy

\* The controller and the page while commands are in flight.
SpecFlight == Init /\ [][NextFlight]_vars

NextUi ==
  \/ UiHotkeyToggle
  \/ UiResult
  \/ UiClicked
  \/ UiHoverEntered
  \/ UiHoverExited
  \/ UiKeyEscape
  \/ UiTimerFire
  \/ HideEvent
  \/ SafetyResetTimer
  \/ UiDestroy
  \/ UiCrashed
  \/ RecreateTimer
  \/ Activate

\* The controller with the overlay page: the hotkey, the page's events, and the
\* window events and timers they set off.
SpecUi == Init /\ [][NextUi]_vars

Next ==
  \/ HotkeyToggle
  \/ Blur
  \/ OsHide
  \/ HideEvent
  \/ SafetyResetTimer
  \/ OsMinimize
  \/ MinimizeEvent
  \/ Destroy
  \/ CloseAttempt
  \/ Crashed
  \/ RecreateTimer
  \/ Activate
  \/ SecondInstance
  \/ CaptureShortcut
  \/ RefreshShortcut
  \/ SetIgnoreMouseEventsIpc
  \/ SendCommand

Spec == Init /\ [][Next]_vars

\* ------------------------------------------------ the application's life
\* The process still runs handlers.
Alive == app.phase # "quit"

\* A createOverlayWindow that registers the toggle shortcut again.
OnOverlayCreatedRegistering(a) == [a EXCEPT !.regs = @ + 1]

\* createOverlayWindow() places the new window at the initial position and
\* registers window listeners only; registerGlobalShortcuts is called from
\* app.whenReady alone.
OnOverlayCreated(a) == [a EXCEPT !.pos = InitialPosition(a.display)]

\* The toggle key is pressed: the callback registered for it runs.
AppHotkeyToggle == Alive /\ app.regs = 1 /\ HotkeyToggle

AppHideEvent == Alive /\ HideEvent

AppSafetyResetTimer == Alive /\ SafetyResetTimer

AppDestroy == Alive /\ Destroy

AppCrashed == Alive /\ Crashed

AppRecreateTimer ==
  /\ Alive
  /\ RecreateTimerStep
  /\ app' = IF NeedsRecreate(overlayWindow, ov) THEN OnOverlayCreated(app) ELSE app
  /\ UNCHANGED <<ui, reply>>

\* A main window created whether or not one is live.
MainNeedsCreateAlways(m) == TRUE

\* if (!mainWindow || mainWindow.isDestroyed()) createMainWindow();
MainNeedsCreate(m) == ~m

\* app.on('activate') while the app is ready, in any state of the two windows:
\* with both windows live the handler changes nothing.
AppActivate ==
  /\ Alive
  /\ IF OverlayLive /\ mainWindow
     THEN /\ last' = Note("activate")
          /\ toggleRun' = -1
          /\ UNCHANGED <<variant, ov, overlayWindow, mainWindow, allowOverlayHide,
                         resetTimers, recreateTimers, recreations>>
          /\ expectVisible' = ExpectAfter(FALSE)
     ELSE ActivateStep
  /\ app' = LET a == IF ~OverlayLive THEN OnOverlayCreated(app) ELSE app
            IN  IF MainNeedsCreate(mainWindow) \/ (LiveOverlays = {} /\ ~mainWindow)
                THEN [a EXCEPT !.mainGen = @ + 1] ELSE a
  /\ UNCHANGED <<ui, reply>>

\* The settings window is closed: mainWindow.on('closed') sets mainWindow = null.
MaxMainGen == 2        \* main windows created in one run

MainClosed ==
  /\ Alive /\ mainWindow
  /\ app.mainGen < MaxMainGen
  /\ mainWindow' = FALSE
  /\ last' = Note("main-closed")
  /\ toggleRun' = -1
  /\ UNCHANGED <<variant, ov, overlayWindow, allowOverlayHide, resetTimers,
                 recreateTimers, recreations, expectVisible, ui, reply, app>>

\* An 'unresponsive' handler that treats the hang like a crash.
OnUnresponsiveRecreating(timers, g) ==
  Append(timers, [gen |-> g, vis |-> FALSE, made |-> FALSE])

\* webContents.on('unresponsive') and webContents.on('responsive'): console.warn,
\* console.log.
OnUnresponsive(timers, g) == timers

\* The page of the overlay stops answering, or answers again.
Unresponsive ==
  \E g \in LiveOverlays, ev \in {"unresponsive", "responsive"} :
    /\ Alive /\ ~ov[g].crashed
    /\ recreateTimers' = OnUnresponsive(recreateTimers, g)
    /\ last' = Note(ev)
    /\ toggleRun' = -1
    /\ UNCHANGED <<variant, ov, overlayWindow, mainWindow, allowOverlayHide,
                   resetTimers, recreations, expectVisible, ui, reply, app>>

\* The executable and the platform leave an alternate to try: the first of
\* ['python3', 'python'] (win32: ['python']) that differs from pythonExec.
HasAlternate == BOOLEAN

\* backendProcess.on('close'): if (exitTimer !== null) spawn the alternate.
QuickFail(a, hasAlt) == a.exitTimer /\ hasAlt

OnBackendClose(a, hasAlt) ==
  IF QuickFail(a, hasAlt)
  THEN [a EXCEPT !.proc = "closed", !.alt = "running", !.lateSpawn = a.beforeQuit]
  ELSE [a EXCEPT !.proc = "closed"]

AppOnly ==
  UNCHANGED <<variant, ov, overlayWindow, mainWindow, allowOverlayHide, resetTimers,
              recreateTimers, recreations, expectVisible, toggleRun, ui, reply>>

\* The spawned backend dies by itself, or its death after kill() is reported.
BackendClose ==
  \E hasAlt \in HasAlternate :
    /\ Alive /\ app.proc \in {"running", "killed"}
    /\ app' = OnBackendClose(app, hasAlt)
    /\ last' = Note("backend-close")
    /\ AppOnly

\* The alternate's 'close' handler logs the exit code.
AlternateClose ==
  /\ Alive /\ app.alt \in {"running", "killed"}
  /\ app' = [app EXCEPT !.alt = "closed"]
  /\ last' = Note("alternate-close")
  /\ AppOnly

\* setTimeout(() => { exitTimer = null; }, 2000)
ExitTimer ==
  /\ Alive /\ app.exitTimer
  /\ app' = [app EXCEPT !.exitTimer = FALSE]
  /\ last' = Note("exit-timer")
  /\ AppOnly

\* if (backendProcess && !backendProcess.killed) backendProcess.kill();
\* backendProcess is the alternate once the fallback has spawned it.
KillBackend(a) ==
  IF a.alt # "none"
  THEN [a EXCEPT !.alt = IF @ = "running" THEN "killed" ELSE @]
  ELSE [a EXCEPT !.proc = IF @ = "running" THEN "killed" ELSE @]

\* app.quit() is asked for: 'before-quit' is emitted and the windows are asked
\* to close.
BeforeQuit ==
  /\ app.phase = "running"
  /\ app' = [KillBackend(app) EXCEPT !.phase = "quitting", !.beforeQuit = TRUE]
  /\ last' = Note("before-quit")
  /\ AppOnly

\* The windows close and 'will-quit' runs globalShortcut.unregisterAll(); the
\* process ends with whatever child it has left.  part_002's 'close' listener
\* prevents the overlay's close, which cancels the quit.
QuitProceeds ==
  /\ app.phase = "quitting"
  /\ IF variant = "part_002" /\ OverlayLive
     THEN /\ CloseAttemptStep
          /\ app' = [app EXCEPT !.phase = "running"]
     ELSE /\ ov' = [g \in Gens |-> IF ov[g].st = "live" THEN NoWindow("destroyed")
                                   ELSE ov[g]]
          /\ overlayWindow' = ClosedHandler
          /\ mainWindow' = FALSE
          /\ resetTimers' = <<>>
          /\ recreateTimers' = <<>>
          /\ last' = Note("will-quit")
          /\ toggleRun' = -1
          /\ app' = [app EXCEPT !.phase = "quit", !.regs = 0]
          /\ UNCHANGED <<variant, allowOverlayHide, recreations>>
          /\ expectVisible' = ExpectAfter(FALSE)
  /\ UNCHANGED <<ui, reply>>

NextApp ==
  \/ AppHotkeyToggle
  \/ AppHideEvent
  \/ AppSafetyResetTimer
  \/ AppDestroy
  \/ AppCrashed
  \/ AppRecreateTimer
  \/ AppActivate
  \/ BeforeQuit
  \/ QuitProceeds

\* The controller within the life of the application: startup done, the overlay
\* recreated after crashes and on 'activate', quitting.
SpecApp == Init /\ [][NextApp]_vars

NextWindows ==
  \/ AppActivate
  \/ MainClosed
  \/ AppDestroy
  \/ AppHotkeyToggle
  \/ AppHideEvent
  \/ AppSafetyResetTimer

\* The two windows of the application, closed by the user and brought back by
\* 'activate'.
SpecWindows == Init /\ [][NextWindows]_vars

NextSignals ==
  \/ Unresponsive
  \/ AppCrashed
  \/ AppRecreateTimer
  \/ AppDestroy
  \/ AppHotkeyToggle
  \/ AppHideEvent
  \/ AppSafetyResetTimer

\* The controller and the failure signals of the overlay's page.
SpecSignals == Init /\ [][NextSignals]_vars

NextBackend ==
  \/ BackendClose
  \/ AlternateClose
  \/ ExitTimer
  \/ BeforeQuit
  \/ QuitProceeds
  \/ AppHotkeyToggle
  \/ AppHideEvent
  \/ AppSafetyResetTimer

\* The application and the backend process it spawned.
SpecBackend == Init /\ [][NextBackend]_vars

\* ======================================================================
\* Properties
\* ======================================================================
\* No 'hide' or 'minimize' event of the window system is waiting for delivery.
Settled == \A g \in Gens : ov[g].hidePending = 0 /\ ~ov[g].minPending

\* The handlers that reach the overlay through safeOverlayOperation.
GuardedEvents == {"toggle", "second-instance", "capture", "refresh"}

\* C1: in every reachable state, the handler that ran last invoked no window
\* method on a destroyed window or through a null reference.
C1_NoStaleWindowAccess == ~last.stale

\* C2: starting from the hidden overlay, while nothing but hotkey toggles (and the
\* events and timers they trigger) has happened, the overlay is visible after an
\* odd number of toggles and hidden after an even number.
C2_TogglesAlternate ==
  (toggleRun >= 0 /\ Settled) => (OverlayVisible <=> toggleRun % 2 = 1)

\* C3: an overlay that was shown and not dismissed with the hotkey since is still
\* visible once the window system's pending events are delivered.
C3_HiddenOnlyByDismissal == (expectVisible /\ Settled) => OverlayVisible

\* C4: a blur that reaches a visible overlay leaves it visible, starts no timer
\* and changes nothing but the always-on-top and all-workspaces flags, which it
\* sets.
C4_BlurKeepsVisibility ==
  [][(last'.ev = "blur" /\ OverlayVisible) =>
        /\ OverlayVisible'
        /\ ov' = [ov EXCEPT ![overlayWindow].onTop = TRUE,
                            ![overlayWindow].allWS = TRUE]
        /\ UNCHANGED <<overlayWindow, allowOverlayHide, resetTimers,
                       recreateTimers>>]_vars

C4_Witness == last.ev = "blur" /\ ~last.stale /\ OverlayVisible

\* C5: when the overlay window is missing or destroyed, a handler that goes
\* through the guard does not run its operation: the guard returns false, no
\* window method is invoked and no window, global or timer changes.
C5_GuardSkipsMissingWindow ==
  [][(last'.ev \in GuardedEvents /\ ~OverlayLive) =>
        /\ last'.guard = "skipped"
        /\ ~last'.stale /\ ~last'.act
        /\ UNCHANGED <<ov, overlayWindow, mainWindow, allowOverlayHide,
                       resetTimers, recreateTimers>>]_vars

C5_Witness == last.ev \in GuardedEvents /\ last.guard = "skipped" /\ ~OverlayLive

\* C6: a call that throws inside a guarded operation never leaves the handler:
\* the guard catches it and returns false.
C6_GuardContainsFaults ==
  last.ev \in GuardedEvents =>
    /\ ~last.uncaught
    /\ last.fault => last.guard = "caught"

C6_Witness == last.ev = "toggle" /\ last.fault /\ last.guard = "caught"

\* C7: the hotkey toggle never gives the overlay the input focus.
C7_HotkeyShowKeepsFocus == last.ev = "toggle" => ~last.act

\* C8: when the crash timer of an overlay that crashed while visible has fired, a
\* live overlay of a higher generation exists and is visible.
C8_CrashRecoveryShowsNewOverlay ==
  (last.ev = "crash-timer" /\ last.info.vis) =>
     /\ OverlayLive
     /\ overlayWindow > last.info.gen
     /\ IsVisible(CurrentWin)

\* C9: when an overlay that was visible has just been destroyed, a reconstruction
\* is scheduled (a crash timer is pending); and when the crash timer of an overlay
\* that crashed while visible has fired, a live overlay with a working renderer
\* exists.
C9_FailureLeadsToNewOverlay ==
  /\ (last.ev \in {"closed", "close"} /\ last.info.vis) => recreateTimers # <<>>
  /\ (last.ev = "crash-timer" /\ last.info.vis) => (OverlayLive /\ ~CurrentWin.crashed)

\* A retry limit in the sense of C10; any limit below the number of windows the
\* model may create stands for "a small fixed constant".
RetryLimit == MaxGen - 2

\* C10: the crash timer never reconstructs the overlay more often than the retry
\* limit allows.
C10_ReconstructionsBounded == recreations <= RetryLimit

\* C11: when the overlay was lost while Pinned and a reconstruction has just
\* created its new window, the overlay is visible in state Showing and no
\* auto-hide timer is pending.
C11_PinnedLossComesBackShowing ==
  (last.info.made /\ ui.pre = "Pinned") =>
     (OverlayVisible /\ ui.state = "Showing" /\ ui.timers = <<>>)

C13_SuccessReturnedUnchanged ==
  (reply.handler = "send-command" /\ reply.answer # "error") =>
     (reply.success /\ reply.error = "" /\ reply.result = reply.answer)

\* C14: a command handler whose backend request failed throws nothing and
\* resolves to success = false with an error message and a non-empty remedy.
C14_FailureIsAnswered ==
  /\ last.ev \in {"send-command", "send-command-confirmation", "test-send-command"} =>
        ~last.uncaught
  /\ reply.answer = "error" =>
        (~reply.success /\ reply.error # "" /\ reply.result # "")

C14_Witness ==
  /\ reply.handler = "send-command-confirmation"
  /\ reply.answer = "error"
  /\ reply.error = "Backend error: 500 - Internal Server Error"
  /\ reply.result = "Please ensure the backend service is running"

\* C15: no handler lets an exception escape, and the worst state reached is an
\* overlay that is hidden but still there for the hotkey to show.
C15_WorstIsHiddenOverlay ==
  /\ ~last.uncaught
  /\ ~OverlayVisible => OverlayLive

\* C16: at most one auto-hide timer is active; a result received while Showing
\* leaves exactly one, with the duration configured for the result's kind, and
\* the timer a second result finds active is cancelled.
C16_OneActiveTimer ==
  /\ Len(ui.timers) <= 1
  /\ (last.ev = "result" /\ ui.state = "Showing") =>
        /\ Len(ui.timers) = 1
        /\ ui.timers[1].duration = Duration(ui.timers[1].kind)

C16_Witness ==
  last.ev = "result" /\ ui.state = "Showing" /\ ui.cancelled = 1 /\ Len(ui.timers) = 1

\* C17: a click or a hover while Showing pins the overlay and cancels the active
\* timer, so that no timer is left to fire while the state is Pinned.
C17_PinCancelsTimer ==
  /\ last.ev \in {"clicked", "hover-entered"} =>
        (ui.state = "Pinned" /\ ui.pinned /\ ui.timers = <<>>)
  /\ ui.state = "Pinned" => ui.timers = <<>>

C17_Witness ==
  last.ev = "hover-entered" /\ ui.state = "Pinned" /\ ui.cancelled = 1

\* C18: when the auto-hide timer of an untouched overlay has fired and the events
\* it set off are handled, the overlay is hidden, without hotkey or Escape.
C18_TimerHidesOverlay ==
  (ui.state = "Hidden" /\ ui.hiddenBy = "timer" /\ Settled) => ~OverlayVisible

\* C19: when Escape was pressed on a pinned overlay and the events it set off are
\* handled, the overlay is hidden.
C19_EscapeHidesPinnedOverlay ==
  (ui.state = "Hidden" /\ ui.hiddenBy = "escape" /\ Settled) => ~OverlayVisible

\* C20: an overlay the user clicked or hovered stays up until Escape or the
\* hotkey: leaving it with the pointer starts no timer, and a timer started by a
\* later result does not hide it when it fires.
C20_PinOutlivesHover ==
  /\ ui.pinned => ui.state \in {"Showing", "Pinned"}
  /\ last.ev = "hover-exited" => (ui.pinned /\ ui.timers = <<>>)

C20_Witness ==
  last.ev = "auto-hide" /\ ui.pinned /\ ui.state = "Showing" /\ ui.timers = <<>>

\* C21: a click that arrives while a command is in flight pins the overlay at
\* once, and the result that arrives afterwards creates no auto-hide timer.
C21_ClickBeforeResultIsHonored ==
  /\ (last.ev \in {"clicked", "hover-entered"} /\ ui.inflight > 0) =>
        (ui.state = "Pinned" /\ ui.timers = <<>>)
  /\ (last.ev = "send-command" /\ ui.state = "Pinned") => ui.timers = <<>>

C21_Witness ==
  /\ last.ev = "send-command" /\ ui.honored /\ ui.inflight = 0
  /\ ui.state = "Pinned" /\ ui.timers = <<>>

\* C22: while a command is in flight the hotkey is handled at once (a toggle
\* that ran hid a visible overlay or showed a hidden one, and the command is
\* still in flight), and the answer that arrives afterwards finds the handler
\* able to forward and return it as long as the overlay window exists.
C22_FlightBlocksNothing ==
  [][ /\ (ui.inflight > 0 /\ last'.ev = "toggle" /\ last'.guard = "ran") =>
            /\ OverlayVisible' # OverlayVisible
            /\ ui'.inflight = ui.inflight
      /\ (last'.ev = "send-command" /\ OverlayLive) =>
            /\ ui'.inflight = ui.inflight - 1
            /\ ~last'.stale /\ ~last'.uncaught
            /\ reply'.answer # "error" => reply'.success ]_vars

C22_Witness ==
  /\ variant = "main" /\ last.ev = "send-command"
  /\ OverlayLive /\ ~OverlayVisible /\ ui.hiddenBy = "toggle"
  /\ reply.answer = "chat" /\ reply.success

\* C23: as long as the process runs, exactly one callback is registered for the
\* toggle key, however often the overlay was recreated, and once will-quit has
\* run none is registered.
C23_ShortcutRegisteredOnce ==
  /\ app.phase # "quit" => app.regs = 1
  /\ app.phase = "quit" => app.regs = 0

C23_Witness == app.phase = "quit" /\ app.regs = 0 /\ recreations > 0 /\ NumCreated = MaxGen

\* C24: a visible overlay is always on top and visible on all workspaces,
\* whichever handler made it visible.
C24_VisibleOverlayIsPinned ==
  OverlayVisible => (CurrentWin.onTop /\ CurrentWin.allWS)

\* C25: hiding an overlay that is already hidden, through the guarded hide of
\* part_002's close handler and as often as one likes, changes nothing: no
\* window changes, no event is queued that could show it, no exception escapes.
C25_HideOfHiddenIsNoOp ==
  [][(variant = "part_002" /\ last'.ev = "close" /\ OverlayLive /\ ~CurrentWin.visible) =>
        /\ ov' = ov /\ overlayWindow' = overlayWindow
        /\ UNCHANGED <<allowOverlayHide, resetTimers, recreateTimers>>
        /\ ~last'.uncaught /\ ~last'.stale]_vars

C25_Witness ==
  /\ variant = "part_002" /\ last.ev = "close" /\ ~expectVisible
  /\ OverlayLive /\ ~CurrentWin.visible /\ Settled

\* C29: in part_002, while nothing but hotkey toggles and the events and timers
\* they set off has happened, the overlay is hidden after every second toggle
\* once its 'hide' event is delivered.
C29_HotkeyHideStands ==
  (variant = "part_002" /\ toggleRun >= 0 /\ toggleRun % 2 = 0 /\ Settled) =>
     ~OverlayVisible

\* C30: in part_002 a close attempt leaves the window alive and, once the 'hide'
\* event it caused is delivered, hidden.
C30_CloseAttemptHides ==
  [][(variant = "part_002" /\ last.ev = "close" /\ last'.ev = "hide" /\ Settled') =>
        (OverlayLive' /\ ~OverlayVisible')]_vars

\* C26: an 'unresponsive' or 'responsive' signal of the overlay's page changes
\* no window, not the overlay reference, and schedules no reconstruction.
C26_HangSignalsOnlyLogged ==
  [][last'.ev \in {"unresponsive", "responsive"} =>
        /\ ov' = ov /\ overlayWindow' = overlayWindow /\ mainWindow' = mainWindow
        /\ UNCHANGED <<recreateTimers, recreations, allowOverlayHide, resetTimers>>
        /\ ~last'.uncaught]_vars

C26_Witness ==
  last.ev = "responsive" /\ OverlayVisible /\ recreateTimers = <<>> /\ recreations > 0

\* C27: after 'activate' a live overlay window and a live main window exist; a
\* missing one was created, a live one is the window it was.
C27_ActivateRestoresWindows ==
  [][last'.ev = "activate" =>
        /\ OverlayLive' /\ mainWindow'
        /\ OverlayLive => (ov' = ov /\ overlayWindow' = overlayWindow)
        /\ ~OverlayLive => (overlayWindow' \notin LiveOverlays /\ last'.info.made)
        /\ app'.mainGen = IF mainWindow THEN app.mainGen ELSE app.mainGen + 1]_vars

C27_Witness ==
  last.ev = "activate" /\ last.info.made /\ app.mainGen = 2 /\ OverlayLive /\ mainWindow

\* C28: once before-quit was emitted no backend process is running and none was
\* spawned since.
C28_NoBackendAfterQuit ==
  app.beforeQuit => (~app.lateSpawn /\ app.proc # "running" /\ app.alt # "running")

-----------------------------------------------------------------------------
\* Mouse events of the overlay, part_002

\* C37: in part_002, when a hotkey toggle or a capture-shortcut event has been
\* handled with no call throwing, the overlay accepts mouse events exactly if it
\* is visible: a visible overlay does not ignore them, a hidden one is
\* click-through.
C37_MouseFollowsVisibility ==
  [][(/\ variant = "part_002"
      /\ last'.ev \in {"toggle", "capture"}
      /\ ~last'.fault
      /\ OverlayLive')
       => (OverlayVisible' <=> ~ov'[overlayWindow'].ignoreMouse)]_vars

-----------------------------------------------------------------------------
\* Moving the overlay, part_002

MoveStep == 20         \* pixels of one move request
BottomMargin == 100    \* pixels kept between y and the bottom of the work area

Displays == {[w |-> w, h |-> h] : w \in {680, 700, 765}, h \in {150, 200, 250}}

Directions == {"up", "down", "left", "right", "sideways"}

Min(a, b) == IF a < b THEN a ELSE b
Max(a, b) == IF a > b THEN a ELSE b

\* A move that adds or subtracts the step and clamps nothing.
MovePositionUnclamped(p, d, direction) ==
  CASE direction = "up"    -> [p EXCEPT !.y = p.y - MoveStep]
    [] direction = "down"  -> [p EXCEPT !.y = p.y + MoveStep]
    [] direction = "left"  -> [p EXCEPT !.x = p.x - MoveStep]
    [] direction = "right" -> [p EXCEPT !.x = p.x + MoveStep]
    [] OTHER               -> p

\* switch (direction): up, Math.max(0, y - step); down, Math.min(height - 100,
\* y + step); left, Math.max(0, x - step); right, Math.min(width -
\* getBounds().width, x + step); any other direction keeps both.
MovePosition(p, d, direction) ==
  CASE direction = "up"    -> [p EXCEPT !.y = Max(0, p.y - MoveStep)]
    [] direction = "down"  -> [p EXCEPT !.y = Min(d.h - BottomMargin, p.y + MoveStep)]
    [] direction = "left"  -> [p EXCEPT !.x = Max(0, p.x - MoveStep)]
    [] direction = "right" -> [p EXCEPT !.x = Min(d.w - OverlayWidth, p.x + MoveStep)]
    [] OTHER               -> p

MoveEvent(direction) ==
  IF direction \in {"up", "down", "left", "right"} THEN "move" ELSE "move-other"

\* ipcMain.on('move-overlay-window'): the position is read, changed and set
\* inside the guard.
MoveOverlayWindow ==
  \E direction \in Directions :
    /\ Alive /\ variant = "part_002"
    /\ Commit(SafeOverlayOperation(NoEffect), MoveEvent(direction))
    /\ app' = IF GuardPasses(overlayWindow, ov)
              THEN [app EXCEPT !.pos = MovePosition(app.pos, app.display, direction)]
              ELSE app
    /\ toggleRun' = -1
    /\ UNCHANGED <<variant, recreations, ui, reply, overlayWindow, mainWindow,
                   recreateTimers>>
    /\ expectVisible' = ExpectAfter(FALSE)

InitMove == \E d \in Displays : InitOn(d)

NextMove ==
  \/ MoveOverlayWindow
  \/ AppDestroy
  \/ AppActivate

\* The overlay moved by requests of its page, on any of the displays.
SpecMove == InitMove /\ [][NextMove]_vars

InRange(p, d) ==
  /\ 0 <= p.x /\ p.x <= d.w - OverlayWidth
  /\ 0 <= p.y /\ p.y <= d.h - BottomMargin

MoveIgnored ==
  [][(last'.ev = "move-other" \/ (last'.ev = "move" /\ ~OverlayLive))
        => app'.pos = app.pos]_vars

\* C36 as stated: on a display at least as wide as the overlay the position
\* stays within 0 <= x <= width - 700 and 0 <= y <= height - 100, and a request
\* with another direction or for a destroyed overlay leaves it unchanged.
C36_PositionWithinWidth ==
  /\ [](app.display.w >= OverlayWidth => InRange(app.pos, app.display))
  /\ MoveIgnored

\* C36: on a display at least as wide as the overlay and at least 200 pixels
\* high (the initial y plus the bottom margin) the position stays within
\* 0 <= x <= width - 700 and 0 <= y <= height - 100 under any sequence of move
\* requests, and a request with another direction or for a destroyed overlay
\* leaves it unchanged.
C36_PositionWithinDisplay ==
  /\ []((app.display.w >= OverlayWidth /\ app.display.h >= InitialY + BottomMargin)
          => InRange(app.pos, app.display))
  /\ MoveIgnored

C36_Witness ==
  /\ last.ev = "move" /\ OverlayLive
  /\ app.display.w > OverlayWidth /\ app.display.h > InitialY + BottomMargin
  /\ app.pos.x = app.display.w - OverlayWidth
  /\ app.pos.y = app.display.h - BottomMargin

-----------------------------------------------------------------------------
\* The stored conversation context

MaxCommands == 3       \* send-command requests in one run

\* An update that empties the context when the response carries none.
StoreAfterResetting(context, id, answer, carries) ==
  IF answer = "error" THEN context ELSE IF carries THEN id ELSE 0

\* if (response.data.context) store.set('context', response.data.context),
\* reached only when the await did not throw.
StoreAfter(context, id, answer, carries) ==
  IF answer # "error" /\ carries THEN id ELSE context

\* send-command up to its await: the request goes out with the stored context.
ContextSend ==
  /\ Alive /\ app.sent < MaxCommands
  /\ app' = [app EXCEPT !.sent = @ + 1, !.flying = @ \cup {app.sent + 1}]
  /\ last' = Note("send-command-sent")
  /\ toggleRun' = -1
  /\ UNCHANGED <<variant, recreations, ov, overlayWindow, mainWindow, allowOverlayHide,
                 resetTimers, recreateTimers, expectVisible, ui, reply>>

\* send-command from its await on, for any of the commands in flight: the
\* context is stored before the response is forwarded or returned.
ContextAnswer ==
  \E id \in app.flying, answer \in Answers, carries \in BOOLEAN :
    /\ Alive
    /\ answer = "error" => ~carries
    /\ SendCommandStep(answer)
    /\ reply' = SendCommandReply(variant, answer, ~ForwardThrows(CurrentWin), "other", "")
    /\ app' = [app EXCEPT
                 !.flying = @ \ {id},
                 !.context = StoreAfter(app.context, id, answer, carries),
                 !.log = Append(@, [id |-> id, ok |-> answer # "error",
                                    carries |-> carries])]
    /\ UNCHANGED ui

\* ipcMain.handle('clear-context'): store.set('context', []).
ClearContext ==
  /\ Alive
  /\ app' = [app EXCEPT !.context = 0,
                        !.log = Append(@, [id |-> 0, ok |-> TRUE, carries |-> TRUE])]
  /\ Len(app.log) < MaxCommands + 1
  /\ last' = Note("clear-context")
  /\ toggleRun' = -1
  /\ UNCHANGED <<variant, recreations, ov, overlayWindow, mainWindow, allowOverlayHide,
                 resetTimers, recreateTimers, expectVisible, ui, reply>>

NextContext ==
  \/ ContextSend
  \/ ContextAnswer
  \/ ClearContext
  \/ AppDestroy

\* Commands in flight, answered in any order, and the context they leave.
SpecContext == Init /\ [][NextContext]_vars

\* The context of the most recent entry of the log that set one: a successful
\* command whose response carried a context, or clear-context; the empty
\* context when there is none.
RECURSIVE LatestContext(_)
LatestContext(log) ==
  IF log = <<>> THEN 0
  ELSE LET e == log[Len(log)]
       IN  IF e.ok /\ e.carries THEN e.id
           ELSE LatestContext(SubSeq(log, 1, Len(log) - 1))

\* C35: send-command replaces the stored context only when the backend call
\* succeeded and the response carries a context, with exactly that context, and
\* leaves it unchanged otherwise; with several commands in flight the stored
\* context is the one of the most recently completed such command (the empty
\* one after clear-context).
C35_ContextOfLatestSuccess ==
  /\ [](app.context = LatestContext(app.log))
  /\ [][last'.ev = "send-command" =>
          LET e == app'.log[Len(app'.log)]
          IN  app'.context = IF e.ok /\ e.carries THEN e.id ELSE app.context]_vars

C35_Witness ==
  /\ last.ev = "send-command" /\ Len(app.log) = 3
  /\ app.log[1].id = 2 /\ app.log[1].ok /\ app.log[1].carries
  /\ app.log[2].id = 3 /\ ~app.log[2].ok
  /\ app.log[3].id = 1 /\ app.log[3].ok /\ app.log[3].carries
  /\ app.context = 1

-----------------------------------------------------------------------------
\* Starting the backend on request, part_002

MaxEnsure == 1            \* ensure-backend requests in one run
EnsureMaxAttempts == 20   \* maxAttempts of the ensure-backend loop

Platforms == {"win32", "darwin"}

\* resolvePythonExecutable(): the virtualenv's python if there is one and the
\* platform is not win32; else 'python' on win32 and 'python3' elsewhere.
ResolvePythonExecutable(platform, venv) ==
  IF platform # "win32" /\ venv THEN ".venv/bin/python"
  ELSE IF platform = "win32" THEN "python" ELSE "python3"

Alternates(platform) ==
  IF platform = "win32" THEN <<"python">> ELSE <<"python3", "python">>

\* for (const alt of alternates) { if (alt === pythonExec) continue; ...; break; }
\* The executable the fallback spawns, "none" when every alternate is pythonExec.
AlternateFor(exec, platform) ==
  LET differing == SelectSeq(Alternates(platform), LAMBDA alt : alt # exec)
  IN  IF differing = <<>> THEN "none" ELSE Head(differing)

\* A startBackend call at its first await, made by an ensure-backend request.
\* phase: "probing" (the initial health probe is out), "healthy" (returned, no
\* spawn), "spawned" (returned after the spawn), "failed" (an exception left the
\* call).  proc, alt, exitTimer: as for the startup call.  spawns: processes the
\* call has spawned.  loop, attempts: the request's polling loop.
NewCall(platform, venv) ==
  [phase |-> "probing", platform |-> platform,
   exec |-> ResolvePythonExecutable(platform, venv),
   proc |-> "none", exitTimer |-> FALSE, alt |-> "none", altExec |-> "none",
   spawns |-> 0, loop |-> "starting", attempts |-> 0]

\* What an ensure-backend request resolves to.
EnsureReply(answer, success, error) ==
  [handler |-> "ensure-backend", answer |-> answer, success |-> success,
   error |-> error, result |-> IF success THEN "http://localhost:8888" ELSE ""]

CallsOnly ==
  UNCHANGED <<variant, ov, overlayWindow, mainWindow, allowOverlayHide, resetTimers,
              recreateTimers, recreations, expectVisible, toggleRun, ui>>

\* ipcMain.handle('ensure-backend') up to the first await of startBackend.  The
\* platform and the virtualenv are those of the earlier requests.
EnsureBackend ==
  \E platform \in Platforms, venv \in BOOLEAN :
    /\ Alive /\ variant = "part_002"
    /\ Len(app.calls) < MaxEnsure
    /\ app.calls # <<>> => NewCall(platform, venv).exec = app.calls[1].exec
                           /\ platform = app.calls[1].platform
    /\ app' = [app EXCEPT !.calls = Append(@, NewCall(platform, venv))]
    /\ last' = Note("ensure-backend")
    /\ UNCHANGED reply
    /\ CallsOnly

\* startBackend after `await isBackendHealthy()`: healthy, it returns; else it
\* spawns pythonExec, arms the 2 s exitTimer and returns.  fails: the spawn or
\* the wiring of the child's streams throws, which rejects the call.
OnStartProbe(c, healthy, fails) ==
  IF healthy THEN [c EXCEPT !.phase = "healthy", !.loop = "polling"]
  ELSE IF fails THEN [c EXCEPT !.phase = "failed", !.loop = "done"]
  ELSE [c EXCEPT !.phase = "spawned", !.proc = "running", !.exitTimer = TRUE,
                 !.spawns = @ + 1, !.loop = "polling"]

StartProbe ==
  \E k \in 1..Len(app.calls), healthy \in BOOLEAN, fails \in BOOLEAN :
    /\ Alive /\ app.calls[k].phase = "probing"
    /\ healthy => ~fails
    /\ app' = [app EXCEPT !.calls[k] = OnStartProbe(@, healthy, fails)]
    /\ reply' = IF fails THEN EnsureReply("thrown", FALSE, "spawn EMFILE") ELSE reply
    /\ last' = Note("start-probe")
    /\ CallsOnly

\* An alternate whose exit spawns the next one.
OnAlternateCloseRetrying(c) == [c EXCEPT !.spawns = @ + 1]

\* The alternate's 'close' listener logs the exit code.
OnAlternateClose(c) == [c EXCEPT !.alt = "closed"]

\* backendProcess.on('close') of the call's first process.
OnCallClose(c) ==
  IF QuickFail(c, AlternateFor(c.exec, c.platform) # "none")
  THEN [c EXCEPT !.proc = "closed", !.alt = "running",
                 !.altExec = AlternateFor(c.exec, c.platform), !.spawns = @ + 1]
  ELSE [c EXCEPT !.proc = "closed"]

CallClose ==
  \E k \in 1..Len(app.calls) :
    /\ Alive /\ app.calls[k].proc = "running"
    /\ app' = [app EXCEPT !.calls[k] = OnCallClose(@)]
    /\ last' = Note("call-close")
    /\ UNCHANGED reply
    /\ CallsOnly

CallAlternateClose ==
  \E k \in 1..Len(app.calls) :
    /\ Alive /\ app.calls[k].alt = "running"
    /\ app' = [app EXCEPT !.calls[k] = OnAlternateClose(@)]
    /\ last' = Note("call-alternate-close")
    /\ UNCHANGED reply
    /\ CallsOnly

CallExitTimer ==
  \E k \in 1..Len(app.calls) :
    /\ Alive /\ app.calls[k].exitTimer
    /\ app' = [app EXCEPT !.calls[k].exitTimer = FALSE]
    /\ last' = Note("call-exit-timer")
    /\ UNCHANGED reply
    /\ CallsOnly

NextStart ==
  \/ EnsureBackend
  \/ StartProbe
  \/ CallClose
  \/ CallAlternateClose
  \/ CallExitTimer
  \/ BackendClose
  \/ AlternateClose
  \/ ExitTimer

\* The backend spawned at startup and the startBackend calls of later requests.
SpecStart == Init /\ [][NextStart]_vars

\* Backend processes the application has spawned that have not exited.
Running ==
  (IF app.proc = "running" THEN 1 ELSE 0) + (IF app.alt = "running" THEN 1 ELSE 0)
  + Cardinality({k \in 1..Len(app.calls) : app.calls[k].proc = "running"})
  + Cardinality({k \in 1..Len(app.calls) : app.calls[k].alt = "running"})

\* C31: at most one backend process spawned by the application is starting or
\* running at any time.
C31_OneBackendProcess == Running <= 1

\* C32: a startBackend call spawns at most two processes: none when its health
\* probe was healthy, otherwise the first and, only when that one closes while
\* the 2 s exitTimer is pending, one alternate, whose executable differs from
\* the first; no other event, the alternate's exit included, spawns anything.
C32_AtMostTwoSpawns ==
  /\ [](\A k \in 1..Len(app.calls) :
          LET c == app.calls[k]
          IN  /\ c.spawns <= 2
              /\ c.phase \in {"probing", "healthy", "failed"} => c.spawns = 0
              /\ c.spawns = 2 => (c.altExec # "none" /\ c.altExec # c.exec))
  /\ [][\A k \in 1..Len(app.calls) :
          app'.calls[k].spawns > app.calls[k].spawns =>
            \/ last'.ev = "start-probe" /\ app.calls[k].phase = "probing"
            \/ /\ last'.ev = "call-close"
               /\ app.calls[k].exitTimer /\ app.calls[k].spawns = 1]_vars

C32_Witness ==
  /\ last.ev = "call-alternate-close"
  /\ \E k \in 1..Len(app.calls) :
       /\ app.calls[k].spawns = 2 /\ app.calls[k].alt = "closed"
       /\ app.calls[k].exitTimer /\ app.calls[k].altExec = "python"

\* A loop that probes once more after the last attempt.
LoopContinuesOnceMore(attempts) == attempts <= EnsureMaxAttempts

\* while (attempts < maxAttempts)
LoopContinues(attempts) == attempts < EnsureMaxAttempts

\* One turn of the ensure-backend loop, at the answer of its health probe:
\* attempts += 1; healthy, the request resolves; else it sleeps 500 ms and the
\* loop condition is tested again.
OnEnsureProbe(c, healthy) ==
  [c EXCEPT !.attempts = @ + 1,
            !.loop = IF healthy \/ ~LoopContinues(c.attempts + 1) THEN "done" ELSE @]

EnsureProbe ==
  \E k \in 1..Len(app.calls), healthy \in BOOLEAN :
    /\ Alive /\ app.calls[k].loop = "polling"
    /\ app' = [app EXCEPT !.calls[k] = OnEnsureProbe(@, healthy)]
    /\ reply' = IF healthy THEN EnsureReply("healthy", TRUE, "")
                ELSE IF OnEnsureProbe(app.calls[k], healthy).loop = "done"
                     THEN EnsureReply("unhealthy", FALSE, "Backend not healthy after retries")
                     ELSE reply
    /\ last' = [Note("ensure-probe") EXCEPT !.info.gen = k, !.info.vis = healthy]
    /\ CallsOnly

NextEnsure ==
  \/ EnsureBackend
  \/ StartProbe
  \/ EnsureProbe

\* An ensure-backend request from its arrival to its answer.  Every health
\* probe is answered or times out after 2 s and every 500 ms sleep ends, so a
\* request that can take a step takes one.
SpecEnsure ==
  Init /\ [][NextEnsure]_vars /\ WF_vars(StartProbe) /\ WF_vars(EnsureProbe)

\* C34: an ensure-backend request terminates: it makes at most 20 health
\* probes, one after the other, resolves with success and the backend URL at the
\* first healthy one and with success = false after 20 unhealthy ones or when
\* startBackend threw, and no exception leaves it.
C34_EnsureBackendTerminates ==
  /\ [](\A k \in 1..Len(app.calls) :
          /\ app.calls[k].attempts <= EnsureMaxAttempts
          /\ (app.calls[k].loop = "polling" /\ app.calls[k].phase # "probing")
               => app.calls[k].attempts < EnsureMaxAttempts)
  /\ [][last'.ev = "ensure-probe" =>
          LET k == last'.info.gen
          IN  /\ app'.calls[k].attempts = app.calls[k].attempts + 1
              /\ last'.info.vis =>
                   /\ app'.calls[k].loop = "done"
                   /\ reply'.success /\ reply'.result = "http://localhost:8888"
              /\ (~last'.info.vis /\ app'.calls[k].attempts = EnsureMaxAttempts) =>
                   /\ app'.calls[k].loop = "done"
                   /\ ~reply'.success /\ reply'.handler = "ensure-backend"
              /\ ~last'.uncaught]_vars
  /\ [][(last'.ev = "start-probe" /\ reply' # reply) =>
          (~reply'.success /\ reply'.handler = "ensure-backend" /\ ~last'.uncaught)]_vars
  /\ \A k \in 1..MaxEnsure :
       (Len(app.calls) >= k) ~> (Len(app.calls) >= k /\ app.calls[k].loop = "done")

C34_Witness ==
  /\ last.ev = "ensure-probe" /\ ~last.info.vis
  /\ \E k \in 1..Len(app.calls) :
       /\ app.calls[k].loop = "done" /\ app.calls[k].attempts = EnsureMaxAttempts
       /\ app.calls[k].phase = "spawned"
  /\ ~reply.success /\ reply.handler = "ensure-backend"

-----------------------------------------------------------------------------
\* The health poll of startBackend

PollMaxAttempts == 10   \* maxAttempts of the poll
PollInterval == 500     \* ms between two ticks of the poll
ProbeTimeout == 2000    \* ms after which a health probe gives up

\* Ticks that can pass while one probe is out: a probe started by a tick times
\* out after the fourth tick that follows it, whose timer was armed earlier.
MaxTicksOut == ProbeTimeout \div PollInterval

PollOnly ==
  UNCHANGED <<variant, ov, overlayWindow, mainWindow, allowOverlayHide, resetTimers,
              recreateTimers, recreations, expectVisible, toggleRun, ui, reply>>

\* The interval fires: attempts += 1 and the probe is sent; the callback stops
\* at its await.  Every probe still out is one tick older.
PollTick ==
  /\ Alive /\ ~app.poll.cleared
  /\ \A age \in app.poll.pending : age < MaxTicksOut
  /\ app' = [app EXCEPT !.poll.attempts = @ + 1,
                        !.poll.pending = {age + 1 : age \in @} \cup {0}]
  /\ last' = Note("poll-tick")
  /\ PollOnly

\* The callback resumes with the answer of its probe:
\* if (healthy || attempts >= maxAttempts) clearInterval(interval).
OnPollAnswer(poll, age, healthy) ==
  [poll EXCEPT !.pending = @ \ {age},
               !.cleared = @ \/ healthy \/ poll.attempts >= PollMaxAttempts,
               !.healthy = @ \/ healthy]

PollAnswer ==
  \E age \in app.poll.pending, healthy \in BOOLEAN :
    /\ Alive
    /\ app' = [app EXCEPT !.poll = OnPollAnswer(@, age, healthy)]
    /\ last' = Note("poll-answer")
    /\ PollOnly

NextPoll ==
  \/ PollTick
  \/ PollAnswer
  \/ BackendClose
  \/ ExitTimer

\* The startup call's health poll beside the process it watches.
SpecPoll == Init /\ [][NextPoll]_vars

\* C33: the poll starts at most maxAttempts (10) probes, its counter never
\* exceeds 10, and once a healthy answer was received no probe is started.
C33_PollStopsAtTen ==
  /\ [](app.poll.attempts <= PollMaxAttempts)
  /\ [][app.poll.healthy => app'.poll.attempts = app.poll.attempts]_vars

=============================================================================
